---------------------------- MODULE Spec2Model ----------------------------
(***************************************************************************)
(* Model of saa-downloader.py: the identifier sequencer (makeFilenames),   *)
(* the scan fetcher (downloadScan) and the batch orchestrator (fetchScans, *)
(* fetchScansFromFile, asyncio.run).                                       *)
(*                                                                         *)
(* Strings are sequences of one-character strings.  SpecExpand exercises   *)
(* makeFilenames on every pair of strings over Chars up to MaxLen; Spec    *)
(* runs batches of downloadScan coroutines on the asyncio event loop.      *)
(***************************************************************************)
EXTENDS Integers, Sequences, FiniteSets, TLC

VARIABLES
    \* ---- makeFilenames harness
    start,      \* argument start (str)
    end,        \* argument end (str)
    epc,        \* "call" before makeFilenames runs, "done" after
    filenames   \* what the call produced: [status, value]

evars == <<start, end, epc, filenames>>

(***************************************************************************)
(* Bounds                                                                  *)
(***************************************************************************)
MaxLen == 3

Letters == {"A"}
DigitChars == <<"0", "1", "2", "3", "4", "5", "6", "7", "8", "9">>
InputDigits == {"0", "1", "2"}
Chars == Letters \cup InputDigits

Strings == UNION {[1..n -> Chars] : n \in 1..MaxLen}

(***************************************************************************)
(* String helpers, as Python computes them                                 *)
(***************************************************************************)
IsDigit(c) == \E d \in 1..10 : DigitChars[d] = c

DigitVal(c) == (CHOOSE d \in 1..10 : DigitChars[d] = c) - 1

Min(a, b) == IF a <= b THEN a ELSE b

Max(a, b) == IF a >= b THEN a ELSE b

Take(s, n) == SubSeq(s, 1, n)

Drop(s, n) == SubSeq(s, n + 1, Len(s))

\* os.path.commonprefix([a, b]): the longest common leading substring
CommonPrefix(a, b) ==
    LET ks == {k \in 0..Min(Len(a), Len(b)) : Take(a, k) = Take(b, k)}
        k  == CHOOSE x \in ks : \A y \in ks : y <= x
    IN  Take(a, k)

\* whether sep occurs in s at (1-based) position i
OccursAt(s, sep, i) ==
    /\ i + Len(sep) - 1 <= Len(s)
    /\ SubSeq(s, i, i + Len(sep) - 1) = sep

\* s.split(sep)[1] for a non-empty sep that s starts with: the text between
\* the leading occurrence of sep and the next occurrence (or the end of s)
SplitSecond(s, sep) ==
    LET rest == Drop(s, Len(sep))
        hits == {i \in 1..Len(rest) : OccursAt(rest, sep, i)}
    IN  IF hits = {} THEN rest
        ELSE Take(rest, (CHOOSE i \in hits : \A j \in hits : i <= j) - 1)

\* int(s) succeeds on a non-empty string of decimal digits
IntOk(s) == Len(s) > 0 /\ \A i \in 1..Len(s) : IsDigit(s[i])

RECURSIVE IntOf(_)
IntOf(s) ==
    IF Len(s) = 0 THEN 0
    ELSE 10 * IntOf(Take(s, Len(s) - 1)) + DigitVal(s[Len(s)])

\* str(i) for i >= 0
RECURSIVE StrOf(_)
StrOf(i) ==
    IF i < 10 THEN <<DigitChars[i + 1]>>
    ELSE Append(StrOf(i \div 10), DigitChars[(i % 10) + 1])

\* s.zfill(width): left-pad with "0", never truncating
RECURSIVE Zfill(_, _)
Zfill(s, width) == IF Len(s) >= width THEN s ELSE Zfill(<<"0">> \o s, width)


(***************************************************************************)
(* makeFilenames (lines 18-40)                                             *)
(***************************************************************************)
ValueError == [status |-> "ValueError", value |-> <<>>]

\* mutant of Zpadlength: no padding width is computed
ZpadlengthNone(n_end) == 0

\* line 34: zpadlength = len(str(n_end))
Zpadlength(n_end) == Len(StrOf(n_end))

\* line 37: range(n_start, n_end + 1), as a sequence
RangeSeq(n_start, n_end) ==
    [k \in 1..Max(0, n_end + 1 - n_start) |-> n_start + k - 1]

\* lines 29-40.  str.split raises ValueError on an empty separator and int
\* raises ValueError on anything that is not a decimal numeral.
makeFilenames(s, e) ==
    LET prefix == CommonPrefix(s, e)
    IN  IF prefix = <<>> THEN ValueError
        ELSE LET rs == SplitSecond(s, prefix)
                 re == SplitSecond(e, prefix)
             IN  IF ~IntOk(rs) \/ ~IntOk(re) THEN ValueError
                 ELSE LET n_start == IntOf(rs)
                          n_end == IntOf(re)
                          zpadlength == Zpadlength(n_end)
                          r == RangeSeq(n_start, n_end)
                      IN  [status |-> "ok",
                           value |-> [k \in 1..Len(r) |->
                                        prefix \o Zfill(StrOf(r[k]), zpadlength)]]

(***************************************************************************)
(* downloadScan / fetchScans / asyncio.run                                 *)
(***************************************************************************)
NumTasks == 2
MaxRetries == 2

Tasks == 1..NumTasks
\* the paths os.path.join(destination, filename + '.pdf') of the targets
Keys == {"30/KLAC01462000001.pdf", "30/KLAC01462000002.pdf"}

VARIABLES
    skipArg,    \* skipIfExist as the caller passes it to downloadScan
    target,     \* target[t]: the (destination, filename) of coroutine t
    files,      \* the .pdf files that exist
    call,       \* "first" or "second": which of two sequential batch calls
    pc,         \* pc[t]: where coroutine t stands in downloadScan
    skip,       \* skip[t]: skipIfExist of the current (recursive) invocation
    body,       \* body[t]: r.text in the innermost frame of t ("none": not set)
    outcome,    \* outcome[t]: how coroutine t ended
    running,    \* the task the event loop is executing, 0 when between handles
    ready,      \* the event loop's FIFO queue of handles
    sleepers,   \* tasks inside asyncio.sleep(10), in deadline order
    nfinished,  \* gather: children finished without exception
    outer,      \* gather's outer future: "pending", "result", "exception"
    main,       \* fetchScans: "awaiting", "returned", "raised"
    closed,     \* asyncio.run has cancelled what was left and closed the loop
    \* ---- history of the current call
    descReq,    \* descReq[t]: descriptor requests issued
    prepReq,    \* prepReq[t]: preparation requests issued
    binReq,     \* binReq[t]: binary fetches issued
    sleeps,     \* sleeps[t]: 10-second suspensions begun
    unavail,    \* unavail[t]: descriptor bodies containing "unavailable" seen
    invNet,     \* invNet[t]: requests issued by the current invocation
    writes,     \* writes[k]: times file k was written
    envFault,   \* envFault[t]: t met a transport failure or a body without highres
    atStart,    \* the files that existed when the current call began
    prev,       \* prev[t]: outcome of t in the first call (during the second)
    \* ---- the remote archive
    archive     \* archive[k]: how the archive answers for the scan of file k

bvars == <<skipArg, target, files, call, pc, skip, body, outcome, running,
           ready, sleepers, nfinished, outer, main, closed, descReq, prepReq,
           binReq, sleeps, unavail, invNet, writes, envFault, atStart, prev,
           archive>>

vars == <<evars, bvars>>

\* What a descriptor body is, as far as lines 65, 73 and 77-79 can tell:
\*   "U"  contains "unavailable" but not "invalid item"
\*   "UI" contains both
\*   "I"  contains "invalid item" but not "unavailable"
\*   "H"  contains neither and parses to XML with a highres part
\*   "O"  contains neither and has no highres part (or is not XML)
Bodies == {"U", "UI", "I", "H", "O"}

HasUnavailable(b) == b \in {"U", "UI"}

HasInvalidItem(b) == b \in {"I", "UI"}

HasHighres(b) == b = "H"

\* mutant of Classify: the elif on "invalid item" is lost
ClassifyWithoutInvalid(b) ==
    IF HasUnavailable(b) THEN "Preparing" ELSE "Ready"

\* lines 65, 73, 76: the if / elif / else on r.text
Classify(b) ==
    IF HasUnavailable(b) THEN "Preparing"
    ELSE IF HasInvalidItem(b) THEN "Invalid"
    ELSE "Ready"

\* mutant of ShouldSkip: the existence test is inverted
ShouldSkipInverted(skipIfExist, exists) == skipIfExist /\ ~exists

\* lines 53-54
ShouldSkip(skipIfExist, exists) == skipIfExist /\ exists

\* line 72: the recursive call passes no skipIfExist, so the default applies
\* mutant of RecursiveSkipIfExist: the retry never tests for the file
RecursiveSkipLost(current) == FALSE

RecursiveSkipIfExist(current) == TRUE

StepHandle(t) == [kind |-> "step", task |-> t]

DoneHandle(t) == [kind |-> "done", task |-> t]

MainHandle == [kind |-> "main", task |-> 0]

Bump(f, t) == [f EXCEPT ![t] = @ + 1]

\* one more request or suspension of the retry loop; the count stops at
\* MaxRetries + 1, which only an endless loop reaches
Tick(f, t) == [f EXCEPT ![t] = IF @ > MaxRetries THEN @ ELSE @ + 1]

\* How the archive may answer for one scan:
\*   "free"    anything, a transport failure included; "unavailable" at most
\*             MaxRetries times per fetch
\*   "stuck"   "unavailable" for ever, no failure
\*   "late"    "unavailable" at most MaxRetries times per fetch, then a
\*             highres descriptor or "invalid item"; no failure
\*   "ready"   a highres descriptor at once; no failure
\*   "invalid" "invalid item" at once
Behaviours == {"free", "stuck", "late", "ready", "invalid"}

\* what requests.get(url, headers=HEADERS) of line 62 can give task t
Responses(t) ==
    LET a == archive[target[t]]
        again == IF unavail[t] < MaxRetries THEN {"U", "UI"} ELSE {}
    IN  CASE a = "free" -> again \cup {"I", "H", "O", "error"}
          [] a = "stuck" -> {"U"}
          [] a = "late" -> again \cup {"I", "H"}
          [] a = "ready" -> {"H"}
          [] a = "invalid" -> {"I"}

\* whether the requests of lines 67 and 81 can succeed (TRUE) or raise (FALSE)
RequestOk(t) == IF archive[target[t]] = "free" THEN BOOLEAN ELSE {TRUE}

\* gather(...) without return_exceptions: a child's exception is propagated
\* to the awaiter at once (line 105, lines 144-145)
GatherPropagates(o) == o = "Raised"

cfgvars == <<skipArg, target, call, atStart, prev, archive>>

loopvars == <<sleepers, nfinished, outer, main, closed>>

histvars == <<descReq, prepReq, binReq, sleeps, unavail, invNet, writes, envFault>>

FreshTasks(f) == [t \in Tasks |-> f]

\* the state in which asyncio.run(...) has created the gather children and
\* fetchScans awaits them: every child's first step is queued, in order
BatchStarted ==
    /\ pc = FreshTasks("created")
    /\ skip = FreshTasks(skipArg)
    /\ body = FreshTasks("none")
    /\ outcome = FreshTasks("none")
    /\ running = 0
    /\ ready = [t \in Tasks |-> StepHandle(t)]
    /\ sleepers = <<>>
    /\ nfinished = 0
    /\ outer = "pending"
    /\ main = "awaiting"
    /\ closed = FALSE
    /\ descReq = FreshTasks(0)
    /\ prepReq = FreshTasks(0)
    /\ binReq = FreshTasks(0)
    /\ sleeps = FreshTasks(0)
    /\ unavail = FreshTasks(0)
    /\ invNet = FreshTasks(0)
    /\ writes = [k \in Keys |-> 0]
    /\ envFault = FreshTasks(FALSE)
    /\ atStart = files

\* the same state, reached by a step (skipArg' and files' are set by the caller)
RestartBatch ==
    /\ pc' = FreshTasks("created")
    /\ skip' = FreshTasks(skipArg')
    /\ body' = FreshTasks("none")
    /\ outcome' = FreshTasks("none")
    /\ running' = 0
    /\ ready' = [t \in Tasks |-> StepHandle(t)]
    /\ sleepers' = <<>>
    /\ nfinished' = 0
    /\ outer' = "pending"
    /\ main' = "awaiting"
    /\ closed' = FALSE
    /\ descReq' = FreshTasks(0)
    /\ prepReq' = FreshTasks(0)
    /\ binReq' = FreshTasks(0)
    /\ sleeps' = FreshTasks(0)
    /\ unavail' = FreshTasks(0)
    /\ invNet' = FreshTasks(0)
    /\ writes' = [k \in Keys |-> 0]
    /\ envFault' = FreshTasks(FALSE)
    /\ atStart' = files'

ExpandIdle ==
    /\ start = <<>>
    /\ end = <<>>
    /\ epc = "idle"
    /\ filenames = [status |-> "none", value |-> <<>>]

Init ==
    /\ ExpandIdle
    /\ skipArg \in BOOLEAN
    /\ target \in [Tasks -> Keys]
    /\ files \in SUBSET Keys
    /\ call = "first"
    /\ prev = FreshTasks("none")
    /\ archive = [k \in Keys |-> "free"]
    /\ BatchStarted

\* mutant of Finish: the task ends without its done-callback being scheduled
FinishUnobserved(t, o) ==
    /\ pc' = [pc EXCEPT ![t] = "done"]
    /\ body' = [body EXCEPT ![t] = "none"]
    /\ outcome' = [outcome EXCEPT ![t] = o]
    /\ running' = 0
    /\ ready' = ready

\* the coroutine returns or raises: the task is done and its done-callback
\* (gather's) is scheduled
Finish(t, o) ==
    /\ pc' = [pc EXCEPT ![t] = "done"]
    /\ body' = [body EXCEPT ![t] = "none"]
    /\ outcome' = [outcome EXCEPT ![t] = o]
    /\ running' = 0
    /\ ready' = Append(ready, DoneHandle(t))

\* the event loop runs the next handle: a task step
RunTask ==
    /\ running = 0 /\ ~closed /\ ready # <<>>
    /\ Head(ready).kind = "step"
    /\ LET t == Head(ready).task
       IN  /\ running' = t
           /\ pc' = [pc EXCEPT ![t] = IF @ = "created" THEN "enter" ELSE @]
    /\ ready' = Tail(ready)
    /\ UNCHANGED <<evars, cfgvars, loopvars, histvars, files, skip, body, outcome>>

\* lines 53-59
Enter(t) ==
    /\ running = t /\ pc[t] = "enter"
    /\ IF ShouldSkip(skip[t], target[t] \in files)
       THEN Finish(t, "Skipped")
       ELSE /\ pc' = [pc EXCEPT ![t] = "request"]
            /\ UNCHANGED <<outcome, running, ready, body>>
    /\ UNCHANGED <<evars, cfgvars, loopvars, histvars, files, skip>>

\* lines 61-64: the descriptor request; requests.get raises on a transport
\* failure, else r.text is any body
Descriptor(t) ==
    /\ running = t /\ pc[t] = "request"
    /\ descReq' = Tick(descReq, t)
    /\ invNet' = Bump(invNet, t)
    /\ \E r \in Responses(t) :
         /\ unavail' = IF HasUnavailable(r) THEN Tick(unavail, t) ELSE unavail
         /\ envFault' = IF r \in {"error", "O"}
                         THEN [envFault EXCEPT ![t] = TRUE] ELSE envFault
         /\ IF r = "error"
            THEN Finish(t, "Raised")
            ELSE /\ body' = [body EXCEPT ![t] = r]
                 /\ pc' = [pc EXCEPT ![t] = "classify"]
                 /\ UNCHANGED <<outcome, running, ready>>
    /\ UNCHANGED <<evars, cfgvars, loopvars, files, skip, prepReq, binReq,
                   sleeps, writes>>

\* mutant of Prepare: the task goes to sleep without the preparation request
PrepareNotIssued(t) ==
    /\ running = t /\ pc[t] = "classify" /\ Classify(body[t]) = "Preparing"
    /\ pc' = [pc EXCEPT ![t] = "sleep"]
    /\ UNCHANGED <<evars, cfgvars, loopvars, histvars, files, skip, body,
                   outcome, running, ready>>

\* lines 65-67: the preparation request, its result ignored
Prepare(t) ==
    /\ running = t /\ pc[t] = "classify" /\ Classify(body[t]) = "Preparing"
    /\ prepReq' = Tick(prepReq, t)
    /\ invNet' = Bump(invNet, t)
    /\ \E ok \in RequestOk(t) :
         IF ok
         THEN /\ pc' = [pc EXCEPT ![t] = "sleep"]
              /\ UNCHANGED <<outcome, running, ready, body, envFault>>
         ELSE /\ Finish(t, "Raised")
              /\ envFault' = [envFault EXCEPT ![t] = TRUE]
    /\ UNCHANGED <<evars, cfgvars, loopvars, files, skip, descReq,
                   binReq, sleeps, unavail, writes>>

\* mutant of Sleep: the sleep is not awaited, the task goes straight on
SleepNotAwaited(t) ==
    /\ running = t /\ pc[t] = "sleep"
    /\ pc' = [pc EXCEPT ![t] = "woken"]
    /\ UNCHANGED <<evars, cfgvars, loopvars, histvars, files, skip, body,
                   outcome, running, ready>>

\* mutant of Sleep: a blocking sleep, the task keeps the event loop
SleepBlocking(t) ==
    /\ running = t /\ pc[t] = "sleep"
    /\ pc' = [pc EXCEPT ![t] = "woken"]
    /\ sleeps' = Tick(sleeps, t)
    /\ UNCHANGED <<evars, cfgvars, loopvars, files, skip, body, outcome,
                   running, ready, descReq, prepReq, binReq, unavail, invNet,
                   writes, envFault>>

\* line 70: await asyncio.sleep(10) suspends the task
Sleep(t) ==
    /\ running = t /\ pc[t] = "sleep"
    /\ pc' = [pc EXCEPT ![t] = "sleeping"]
    /\ sleepers' = Append(sleepers, t)
    /\ sleeps' = Tick(sleeps, t)
    /\ running' = 0
    /\ UNCHANGED <<evars, cfgvars, files, skip, body, outcome, ready,
                   nfinished, outer, main, closed, descReq, prepReq, binReq,
                   unavail, invNet, writes, envFault>>

\* the earliest timer expires: the sleeping task is made ready
TimerFire ==
    /\ running = 0 /\ ~closed /\ sleepers # <<>>
    /\ pc' = [pc EXCEPT ![Head(sleepers)] = "woken"]
    /\ ready' = Append(ready, StepHandle(Head(sleepers)))
    /\ sleepers' = Tail(sleepers)
    /\ UNCHANGED <<evars, cfgvars, histvars, files, skip, body, outcome,
                   running, nfinished, outer, main, closed>>

\* line 72: await downloadScan(filename, destination)
Recurse(t) ==
    /\ running = t /\ pc[t] = "woken"
    /\ skip' = [skip EXCEPT ![t] = RecursiveSkipIfExist(@)]
    /\ pc' = [pc EXCEPT ![t] = "enter"]
    /\ invNet' = [invNet EXCEPT ![t] = 0]
    /\ body' = [body EXCEPT ![t] = "none"]
    /\ UNCHANGED <<evars, cfgvars, loopvars, files, outcome, running,
                   ready, descReq, prepReq, binReq, sleeps, unavail, writes,
                   envFault>>

\* mutant of Invalid: "invalid item" raises instead of returning
InvalidRaises(t) ==
    /\ running = t /\ pc[t] = "classify" /\ Classify(body[t]) = "Invalid"
    /\ Finish(t, "Raised")
    /\ UNCHANGED <<evars, cfgvars, loopvars, histvars, files, skip>>

\* lines 73-75
Invalid(t) ==
    /\ running = t /\ pc[t] = "classify" /\ Classify(body[t]) = "Invalid"
    /\ Finish(t, "Unresolvable")
    /\ UNCHANGED <<evars, cfgvars, loopvars, histvars, files, skip>>

\* lines 76-79: etree.fromstring / tree.find / .find('part') raise when the
\* body is not XML with a highres part
Parse(t) ==
    /\ running = t /\ pc[t] = "classify" /\ Classify(body[t]) = "Ready"
    /\ IF HasHighres(body[t])
       THEN /\ pc' = [pc EXCEPT ![t] = "fetch"]
            /\ UNCHANGED <<outcome, running, ready, body>>
       ELSE Finish(t, "Raised")
    /\ UNCHANGED <<evars, cfgvars, loopvars, histvars, files, skip>>

\* line 81: the binary fetch
BinaryFetch(t) ==
    /\ running = t /\ pc[t] = "fetch"
    /\ binReq' = Bump(binReq, t)
    /\ invNet' = Bump(invNet, t)
    /\ \E ok \in RequestOk(t) :
         IF ok
         THEN /\ pc' = [pc EXCEPT ![t] = "write"]
              /\ UNCHANGED <<outcome, running, ready, body, envFault>>
         ELSE /\ Finish(t, "Raised")
              /\ envFault' = [envFault EXCEPT ![t] = TRUE]
    /\ UNCHANGED <<evars, cfgvars, loopvars, files, skip, descReq,
                   prepReq, sleeps, unavail, writes>>

\* mutant of WriteFile: the bytes go to a path other than the one line 54 tests
WriteFileElsewhere(t) ==
    /\ running = t /\ pc[t] = "write"
    /\ writes' = Bump(writes, target[t])
    /\ Finish(t, "Downloaded")
    /\ UNCHANGED <<evars, cfgvars, loopvars, files, skip, descReq, prepReq,
                   binReq, sleeps, unavail, invNet, envFault>>

\* lines 82-84
WriteFile(t) ==
    /\ running = t /\ pc[t] = "write"
    /\ files' = files \cup {target[t]}
    /\ writes' = Bump(writes, target[t])
    /\ Finish(t, "Downloaded")
    /\ UNCHANGED <<evars, cfgvars, loopvars, skip, descReq, prepReq,
                   binReq, sleeps, unavail, invNet, envFault>>

\* gather's done-callback for one child
GatherDone ==
    /\ running = 0 /\ ~closed /\ ready # <<>>
    /\ Head(ready).kind = "done"
    /\ LET t == Head(ready).task
       IN  IF outer # "pending"
           THEN /\ ready' = Tail(ready)
                /\ UNCHANGED <<outer, nfinished>>
           ELSE IF GatherPropagates(outcome[t])
           THEN /\ outer' = "exception"
                /\ ready' = Append(Tail(ready), MainHandle)
                /\ UNCHANGED nfinished
           ELSE /\ nfinished' = nfinished + 1
                /\ IF nfinished + 1 = NumTasks
                   THEN /\ outer' = "result"
                        /\ ready' = Append(Tail(ready), MainHandle)
                   ELSE /\ ready' = Tail(ready)
                        /\ UNCHANGED outer
    /\ UNCHANGED <<evars, cfgvars, histvars, files, pc, skip, body, outcome,
                   running, sleepers, main, closed>>

\* fetchScans resumes from "await asyncio.gather(...)": it returns, or the
\* child's exception leaves it
MainWakeup ==
    /\ running = 0 /\ ~closed /\ ready # <<>>
    /\ Head(ready).kind = "main"
    /\ main' = IF outer = "exception" THEN "raised" ELSE "returned"
    /\ ready' = Tail(ready)
    /\ UNCHANGED <<evars, cfgvars, histvars, files, pc, skip, body, outcome,
                   running, sleepers, nfinished, outer, closed>>

\* asyncio.run (line 151): once the main coroutine is over, the remaining
\* tasks are cancelled and the loop is closed
RunCleanup ==
    /\ running = 0 /\ ~closed /\ main # "awaiting"
    /\ closed' = TRUE
    /\ pc' = FreshTasks("done")
    /\ outcome' = [t \in Tasks |-> IF pc[t] = "done" THEN outcome[t] ELSE "Cancelled"]
    /\ ready' = <<>>
    /\ sleepers' = <<>>
    /\ UNCHANGED <<evars, cfgvars, histvars, files, skip, body, running,
                   nfinished, outer, main>>

\* the same batch is called a second time, after the first has returned
\* (an exception leaving asyncio.run ends a script at line 151)
SecondCall ==
    /\ closed /\ call = "first" /\ main = "returned"
    /\ call' = "second"
    /\ prev' = outcome
    /\ UNCHANGED <<evars, skipArg, target, files, archive>>
    /\ RestartBatch

Next ==
    \/ RunTask
    \/ \E t \in Tasks : Enter(t)
    \/ \E t \in Tasks : Descriptor(t)
    \/ \E t \in Tasks : Prepare(t)
    \/ \E t \in Tasks : Sleep(t)
    \/ TimerFire
    \/ \E t \in Tasks : Recurse(t)
    \/ \E t \in Tasks : Invalid(t)
    \/ \E t \in Tasks : Parse(t)
    \/ \E t \in Tasks : BinaryFetch(t)
    \/ \E t \in Tasks : WriteFile(t)
    \/ GatherDone
    \/ MainWakeup
    \/ RunCleanup
    \/ SecondCall

Spec == Init /\ [][Next]_vars

(***************************************************************************)
(* One batch against an archive that never fails, under the scheduling of  *)
(* the event loop: every ready handle is run, every timer expires, a       *)
(* running coroutine goes on to its next await, and asyncio.run finishes.  *)
(***************************************************************************)
InitLive ==
    /\ ExpandIdle
    /\ skipArg \in BOOLEAN
    /\ target \in [Tasks -> Keys]
    /\ files \in SUBSET Keys
    /\ call = "first"
    /\ prev = FreshTasks("none")
    /\ archive \in [Keys -> Behaviours \ {"free"}]
    /\ BatchStarted

\* a step of coroutine t between two awaits
Coroutine(t) ==
    \/ Enter(t)
    \/ Descriptor(t)
    \/ Prepare(t)
    \/ Sleep(t)
    \/ Recurse(t)
    \/ Invalid(t)
    \/ Parse(t)
    \/ BinaryFetch(t)
    \/ WriteFile(t)

\* a step of the event loop itself
EventLoop ==
    \/ RunTask
    \/ TimerFire
    \/ GatherDone
    \/ MainWakeup
    \/ RunCleanup

NextLive ==
    \/ EventLoop
    \/ \E t \in Tasks : Coroutine(t)

SpecLive ==
    /\ InitLive
    /\ [][NextLive]_vars
    /\ WF_vars(RunTask)
    /\ WF_vars(TimerFire)
    /\ WF_vars(GatherDone)
    /\ WF_vars(MainWakeup)
    /\ WF_vars(RunCleanup)
    /\ \A t \in Tasks : WF_vars(Coroutine(t))

(***************************************************************************)
(* makeFilenames on its own: every pair of strings over Chars, one call    *)
(***************************************************************************)
InitExpand ==
    /\ start \in Strings
    /\ end \in Strings
    /\ epc = "call"
    /\ filenames = [status |-> "none", value |-> <<>>]
    /\ skipArg = TRUE
    /\ target = FreshTasks("30/KLAC01462000001.pdf")
    /\ files = {}
    /\ call = "first"
    /\ prev = FreshTasks("none")
    /\ archive = [k \in Keys |-> "free"]
    /\ BatchStarted

\* line 99: filenames = makeFilenames(startscan, endscan)
MakeFilenamesCall ==
    /\ epc = "call"
    /\ filenames' = makeFilenames(start, end)
    /\ epc' = "done"
    /\ UNCHANGED <<start, end, bvars>>

NextExpand == MakeFilenamesCall

SpecExpand == InitExpand /\ [][NextExpand]_vars

(***************************************************************************)
(* Vocabulary of the properties                                            *)
(***************************************************************************)
\* the length of the maximal run of decimal digits that ends s
SuffixLen(s) ==
    LET ks == {k \in 0..Len(s) : \A i \in (Len(s) - k + 1)..Len(s) : IsDigit(s[i])}
    IN  CHOOSE k \in ks : \A j \in ks : j <= k

\* an identifier: a prefix that ends in a non-digit, then the numeric suffix
IdPrefix(s) == Take(s, Len(s) - SuffixLen(s))

NumericSuffix(s) == IntOf(Drop(s, Len(s) - SuffixLen(s)))

WellFormed(s) == SuffixLen(s) > 0 /\ SuffixLen(s) < Len(s)

\* start and end name scans of one inventory
SameInventory == WellFormed(start) /\ WellFormed(end) /\ IdPrefix(start) = IdPrefix(end)

Expanded == epc = "done"

NetCalls(t) == descReq[t] + prepReq[t] + binReq[t]

Terminal == {"Downloaded", "Skipped", "Unresolvable"}

(***************************************************************************)
(* Properties of downloadScan and the batch (checked under Spec)           *)
(***************************************************************************)

\* C1 as stated: in a second call made with skipIfExist=True after the first
\* call is over, every fetch ends Skipped and issues no request, whatever the
\* first call ended with.
C1_SecondCallAlwaysSkips ==
    \A t \in Tasks :
        (call = "second" /\ skipArg /\ pc[t] = "done")
            => (outcome[t] = "Skipped" /\ NetCalls(t) = 0)

\* C1 amended: a fetch that ended Downloaded issued its requests in that
\* call, and in a second call made with skipIfExist=True a fetch whose first
\* call ended Downloaded or Skipped issues no request, writes nothing and
\* ends Skipped.
C1_SecondCallSkipsStored ==
    \A t \in Tasks :
        /\ outcome[t] = "Downloaded" => (descReq[t] >= 1 /\ binReq[t] = 1)
        /\ (call = "second" /\ skipArg /\ prev[t] \in {"Downloaded", "Skipped"})
             => /\ NetCalls(t) = 0
                /\ writes[target[t]] = 0
                /\ pc[t] = "done" => outcome[t] = "Skipped"

C1_Witness ==
    /\ call = "second" /\ skipArg
    /\ \E t \in Tasks :
         prev[t] = "Downloaded" /\ outcome[t] = "Skipped" /\ NetCalls(t) = 0

\* C2: an invocation entered with skipIfExist true while its .pdf exists ends
\* Skipped in that very step, with no descriptor, preparation or binary
\* request and no file write.
C2_SkipExistingImmediately ==
    [][\A t \in Tasks :
         (running = t /\ pc[t] = "enter" /\ skip[t] /\ target[t] \in files)
            => /\ pc'[t] = "done"
               /\ outcome'[t] = "Skipped"
               /\ invNet'[t] = 0
               /\ UNCHANGED <<descReq, prepReq, binReq, writes, files>>]_vars

C2_Witness ==
    \E t \in Tasks :
        /\ skipArg /\ target[t] \in atStart
        /\ outcome[t] = "Skipped" /\ NetCalls(t) = 0

\* C3: a fetch that has seen a descriptor body containing "unavailable" has
\* issued at least one preparation request and been through at least one
\* 10-second suspension by the time it attempts a binary fetch.
C3_PrepareAndSleepBeforeBinary ==
    \A t \in Tasks :
        (unavail[t] > 0 /\ (pc[t] = "fetch" \/ binReq[t] > 0))
            => (prepReq[t] >= 1 /\ sleeps[t] >= 1)

C3_Witness ==
    \E t \in Tasks : unavail[t] > 0 /\ binReq[t] > 0 /\ outcome[t] = "Downloaded"

\* C4 as stated: whenever the descriptor body contains "invalid item", the
\* fetch ends Unresolvable there, having made no binary fetch and writing no
\* file.
C4_InvalidItemAlwaysUnresolvable ==
    [][\A t \in Tasks :
         (running = t /\ pc[t] = "classify" /\ HasInvalidItem(body[t]))
            => /\ pc'[t] = "done"
               /\ outcome'[t] = "Unresolvable"
               /\ binReq'[t] = 0
               /\ UNCHANGED <<files, writes>>]_vars

\* C4 amended: whenever the descriptor body contains "invalid item" and does
\* not contain "unavailable", the fetch ends Unresolvable there, having made
\* no binary fetch and writing no file.
C4_InvalidOnlyUnresolvable ==
    [][\A t \in Tasks :
         (running = t /\ pc[t] = "classify"
            /\ HasInvalidItem(body[t]) /\ ~HasUnavailable(body[t]))
            => /\ pc'[t] = "done"
               /\ outcome'[t] = "Unresolvable"
               /\ binReq'[t] = 0
               /\ UNCHANGED <<files, writes>>]_vars

C4_Witness ==
    \E t \in Tasks :
        outcome[t] = "Unresolvable" /\ binReq[t] = 0 /\ target[t] \notin files

\* C5: once the batch call has returned or raised, no fetch of the batch is
\* still pending or suspended.
C5_AllTerminalWhenBatchEnds ==
    (main # "awaiting" /\ ~closed) => \A t \in Tasks : pc[t] = "done"

\* C6: a target ending Unresolvable raises nothing and disturbs no other
\* target: unless some target met a failure, the batch never raises and no
\* task is cancelled; a batch that returns has a Downloaded, Skipped or
\* Unresolvable outcome for every target, and every Downloaded target's
\* file is written.
C6_UnresolvableIsIsolated ==
    /\ (main = "raised" \/ \E t \in Tasks : outcome[t] \in {"Raised", "Cancelled"})
          => \E u \in Tasks : envFault[u]
    /\ main = "returned" => \A t \in Tasks : outcome[t] \in Terminal
    /\ \A t \in Tasks : outcome[t] = "Downloaded" => target[t] \in files

C6_Witness ==
    /\ main = "returned"
    /\ \E t, u \in Tasks :
         /\ outcome[t] = "Unresolvable"
         /\ outcome[u] = "Downloaded" /\ target[u] \in files

\* C7: a failure inside one target's fetch never aborts the batch: the batch
\* call raises nothing and no other target is cut off before its outcome.
C7_FailureNeverAbortsBatch ==
    /\ main # "raised"
    /\ \A t \in Tasks : outcome[t] # "Cancelled"

(***************************************************************************)
(* Properties of makeFilenames (checked under SpecExpand)                  *)
(***************************************************************************)

\* C8: for identifiers of one inventory with end's numeric suffix >= start's,
\* the result is the ascending run from start to end inclusive: first
\* element start, last element end, consecutive numeric values, and
\* end - start + 1 elements.
C8_ContiguousInclusiveRange ==
    (Expanded /\ SameInventory /\ NumericSuffix(end) >= NumericSuffix(start))
        => /\ filenames.status = "ok"
           /\ LET v == filenames.value
              IN  /\ Len(v) = NumericSuffix(end) - NumericSuffix(start) + 1
                  /\ v[1] = start
                  /\ v[Len(v)] = end
                  /\ \A i \in 1..(Len(v) - 1) :
                        NumericSuffix(v[i + 1]) = NumericSuffix(v[i]) + 1

\* C9: for a well-formed identifier x, makeFilenames(x, x) is the one-element
\* list [x].
C9_SingletonRange ==
    (Expanded /\ WellFormed(start) /\ start = end)
        => filenames = [status |-> "ok", value |-> <<start>>]

\* C10: when end's numeric value is less than start's, makeFilenames fails
\* with an error instead of returning a list.
C10_ReversedRangeIsAnError ==
    (Expanded /\ SameInventory /\ NumericSuffix(end) < NumericSuffix(start))
        => filenames.status # "ok"

\* the twelve identifiers "A01" .. "A12"
A01toA12 ==
    [k \in 1..12 |-> <<"A">> \o Zfill(StrOf(k), 2)]

\* C11: when start's numeric part has fewer digits than end's, every emitted
\* identifier is padded to end's digit count; makeFilenames("A1", "A12")
\* returns exactly "A01", "A02", ..., "A12".
C11_PadsToEndWidth ==
    /\ (Expanded /\ SameInventory
          /\ SuffixLen(start) < SuffixLen(end)
          /\ NumericSuffix(start) <= NumericSuffix(end))
         => /\ filenames.status = "ok"
            /\ \A i \in 1..Len(filenames.value) :
                  SuffixLen(filenames.value[i]) = SuffixLen(end)
    /\ (Expanded /\ start = <<"A", "1">> /\ end = <<"A", "1", "2">>)
         => filenames = [status |-> "ok", value |-> A01toA12]

\* what is left of s after the longest common prefix of start and end
Remainder(s) == Drop(s, Len(CommonPrefix(start, end)))

\* C12: makeFilenames fails, emitting nothing, whenever start and end have no
\* common prefix or the remainder of either after the longest common prefix
\* is not a decimal numeral.
C12_MalformedIsAnError ==
    (Expanded /\ (\/ CommonPrefix(start, end) = <<>>
                  \/ ~IntOk(Remainder(start))
                  \/ ~IntOk(Remainder(end))))
        => (filenames.status # "ok" /\ filenames.value = <<>>)

\* the identifiers one call emitted
Emitted == filenames.value

\* C18 as stated: every emitted identifier starts with the longest common
\* prefix and is padded to the character length of end's remainder, so it is
\* as long as end.
C18_WidthOfEndRemainder ==
    (Expanded /\ SameInventory /\ filenames.status = "ok")
        => \A i \in 1..Len(Emitted) :
             /\ Take(Emitted[i], Len(CommonPrefix(start, end))) = CommonPrefix(start, end)
             /\ Len(Emitted[i]) = Len(end)

\* C18 amended: every emitted identifier starts with the longest common
\* prefix, all emitted identifiers have one length, and the last carries its
\* number without leading zeros (the width is the digit count of end's
\* value, not the length of end's remainder); they are as long as end when
\* end's remainder is a numeral without a leading zero in which the prefix
\* does not occur again.
C18_WidthOfEndValue ==
    (Expanded /\ filenames.status = "ok" /\ Len(Emitted) > 0)
        => LET P == CommonPrefix(start, end)
               last == Emitted[Len(Emitted)]
               tail == Drop(last, Len(P))
           IN  /\ \A i \in 1..Len(Emitted) :
                     /\ Take(Emitted[i], Len(P)) = P
                     /\ Len(Emitted[i]) = Len(last)
                     /\ IntOk(Drop(Emitted[i], Len(P)))
               /\ tail = StrOf(IntOf(tail))
               /\ (/\ IntOk(Remainder(end))
                   /\ Remainder(end) = StrOf(IntOf(Remainder(end)))
                   /\ \A j \in 1..Len(Remainder(end)) : ~OccursAt(Remainder(end), P, j))
                    => last = end

C18_Witness ==
    /\ Expanded /\ filenames.status = "ok"
    /\ Len(Emitted) >= 2
    /\ Len(start) < Len(end)
    /\ Emitted[1] # start
    /\ Emitted[Len(Emitted)] = end

(***************************************************************************)
(* The retry loop, the skip-existing policy and the event loop             *)
(* (checked under Spec)                                                    *)
(***************************************************************************)

\* two tasks of the batch with the same identifier and destination
Duplicates(t, u) == t # u /\ target[t] = target[u]

\* C13 as stated: every Preparing response is followed, in the same
\* invocation, by a new descriptor request, so a fetch of a batch (run with
\* skipIfExist true) that came to an outcome has issued one descriptor
\* request more than it saw Preparing responses.
C13_RetryAlwaysRequestsAgain ==
    \A t \in Tasks :
        (skipArg /\ outcome[t] \in Terminal /\ unavail[t] > 0)
            => descReq[t] = unavail[t] + 1

\* C13 amended: every Preparing response is followed by exactly one
\* preparation request; the task then suspends once per preparation request
\* that did not fail; a descriptor is only ever read after a request that
\* follows the last suspension; and the retry of a batch run with skipIfExist
\* true re-enters at the existence check: it issues a new descriptor request
\* unless the file exists by then, in which case it ends Skipped without one.
C13_RetryReentersAtExistenceCheck ==
    \A t \in Tasks :
        /\ pc[t] # "classify" => prepReq[t] = unavail[t]
        /\ sleeps[t] <= prepReq[t]
        /\ pc[t] \notin {"sleep", "done"} => sleeps[t] = prepReq[t]
        /\ pc[t] \in {"classify", "fetch", "write"} => descReq[t] = sleeps[t] + 1
        /\ outcome[t] \in {"Downloaded", "Unresolvable"}
              => descReq[t] = unavail[t] + 1
        /\ (skipArg /\ outcome[t] = "Skipped")
              => (descReq[t] = unavail[t] /\ target[t] \in files)

C13_Witness ==
    \E t, u \in Tasks :
        /\ skipArg
        /\ Duplicates(t, u)
        /\ outcome[t] = "Skipped" /\ sleeps[t] > 0
        /\ outcome[u] = "Downloaded" /\ unavail[u] > 0

\* C14: in a batch run with skipIfExist true, every file is written at most
\* once and a file that existed when the batch started is never written,
\* duplicate targets included.
C14_WrittenAtMostOnce ==
    skipArg => \A k \in Keys :
                  /\ writes[k] <= 1
                  /\ k \in atStart => writes[k] = 0

C14_Witness ==
    /\ skipArg
    /\ \E t, u \in Tasks :
          /\ Duplicates(t, u)
          /\ target[t] \notin atStart
          /\ writes[target[t]] = 1
          /\ sleeps[t] > 0 /\ sleeps[u] > 0
          /\ outcome[t] \in Terminal /\ outcome[u] \in Terminal

\* task t is inside a requests.get call of line 62, 67 or 81
InNetworkCall(t) ==
    /\ running = t
    /\ \/ pc[t] \in {"request", "fetch"}
       \/ pc[t] = "classify" /\ Classify(body[t]) = "Preparing"

\* task u can take a step now: the event loop can resume it, or it is
\* running and can go on
CanStep(u) ==
    \/ ENABLED (RunTask /\ running' = u)
    \/ ENABLED Coroutine(u)

\* C15: while one task is inside a network call, every other task that has
\* a step scheduled can take it.
C15_NetworkCallBlocksOnlyItsTask ==
    \A t, u \in Tasks :
        (/\ t # u
         /\ InNetworkCall(t)
         /\ \E i \in 1..Len(ready) : ready[i] = StepHandle(u))
            => CanStep(u)

\* C19: a batch of fetches called with skipIfExist false never tests for the
\* file, in the first attempt or in a retry: no fetch ends Skipped and every
\* attempt runs with skipIfExist false.
C19_NoSkipNeverChecks ==
    ~skipArg => \A t \in Tasks :
                   /\ outcome[t] # "Skipped"
                   /\ pc[t] \notin {"created", "done"} => ~skip[t]

(***************************************************************************)
(* Progress of the batch (checked under SpecLive)                          *)
(***************************************************************************)

\* the descriptor of task t's target is Ready or Invalid from the start
Settled(t) == archive[target[t]] \in {"ready", "invalid"}

\* the descriptor of task t's target stays "unavailable" for ever
Endless(t) == archive[target[t]] = "stuck"

\* C16: a target in an endless Preparing loop does not keep any other target
\* of the batch from finishing: every task whose descriptor is Ready or
\* Invalid eventually has a terminal outcome.
C16_EndlessLoopDoesNotStarve ==
    \A t \in Tasks :
        ((\E u \in Tasks : Endless(u)) /\ Settled(t))
            => <>(outcome[t] \in Terminal)

C16_Witness ==
    \E t, u \in Tasks :
        /\ Endless(u) /\ unavail[u] > MaxRetries /\ pc[u] = "sleeping"
        /\ Settled(t) /\ outcome[t] \in Terminal
        /\ sleeps[u] > 0

\* C17: if no descriptor stays "unavailable" for ever and no request fails,
\* every fetch reaches a terminal outcome and the batch call returns.
C17_BatchTerminates ==
    (\A t \in Tasks : ~Endless(t))
        => <>(main = "returned" /\ \A t \in Tasks : outcome[t] \in Terminal)

C17_Witness ==
    /\ main = "returned"
    /\ \A t \in Tasks : ~Endless(t) /\ outcome[t] \in Terminal
    /\ \E t \in Tasks :
          /\ archive[target[t]] = "late"
          /\ unavail[t] = MaxRetries
          /\ outcome[t] = "Downloaded"

=============================================================================
